---- MODULE Spec2Model ----
(***************************************************************************)
(* A model of the shading and light-transport core of xray: the mixed      *)
(* diffuse/glossy reflectance model (brdf.rs), the light sources           *)
(* (light.rs) and the path integrator CpuPathTracer::iterate               *)
(* (pathtracer.rs).                                                        *)
(*                                                                         *)
(* f32 values are fixed-point integers: the real number r is the integer   *)
(* r * Scale, products and quotients truncate toward zero.  A Vec3f is a   *)
(* triple of such numbers.  Option<T> is a record with a field "some".     *)
(***************************************************************************)
EXTENDS Integers, Naturals, Sequences, FiniteSets, TLC

\* The fixed-point unit: the model's integer Scale stands for the f32 1.0.
Scale == 100

\* ------------------------------------------------------------------------
\* f32 arithmetic

Abs(a) == IF a < 0 THEN -a ELSE a

\* Division truncating toward zero (b > 0).
TDiv(a, b) == IF a >= 0 THEN a \div b ELSE -((-a) \div b)

\* a * b on f32.
FMul(a, b) == TDiv(a * b, Scale)

\* a / b on f32 (b # 0).
FDiv(a, b) == IF b > 0 THEN TDiv(a * Scale, b) ELSE -TDiv(a * Scale, -b)

Max(a, b) == IF a >= b THEN a ELSE b

Min(a, b) == IF a <= b THEN a ELSE b

RECURSIVE ISqrtIn(_, _, _)
ISqrtIn(n, lo, hi) ==
  IF lo >= hi THEN lo
  ELSE LET mid == (lo + hi + 1) \div 2
       IN IF mid * mid <= n THEN ISqrtIn(n, mid, hi) ELSE ISqrtIn(n, lo, mid - 1)

\* The integer square root of n >= 0.
ISqrt(n) == ISqrtIn(n, 0, Min(n, 40000))

\* f32::sqrt.
FSqrt(a) == ISqrt(a * Scale)

RECURSIVE FPow(_, _)
\* f32::powf for a whole exponent n >= 0 (x.powf(0.0) is 1.0 for every x).
FPow(a, n) == IF n = 0 THEN Scale ELSE FMul(a, FPow(a, n - 1))

RECURSIVE IPow(_, _)
IPow(a, n) == IF n = 0 THEN 1 ELSE a * IPow(a, n - 1)

\* The k-th root of a in [0, 1], k >= 1: the largest r with r^k <= a.
FRoot(a, k) ==
  CHOOSE r \in 0..Scale :
    /\ IPow(r, k) <= a * IPow(Scale, k - 1)
    /\ IPow(r + 1, k) > a * IPow(Scale, k - 1)

\* ------------------------------------------------------------------------
\* Vec3f

Vec(x, y, z) == <<x, y, z>>

Zero3 == <<0, 0, 0>>

One3 == <<Scale, Scale, Scale>>

VAdd(a, b) == <<a[1] + b[1], a[2] + b[2], a[3] + b[3]>>

VSub(a, b) == <<a[1] - b[1], a[2] - b[2], a[3] - b[3]>>

VNeg(a) == <<-a[1], -a[2], -a[3]>>

\* Vec3f * f32.
VScale(a, s) == <<FMul(a[1], s), FMul(a[2], s), FMul(a[3], s)>>

\* Vec3f * Vec3f, component-wise.
VMul(a, b) == <<FMul(a[1], b[1]), FMul(a[2], b[2]), FMul(a[3], b[3])>>

Dot(a, b) == TDiv(a[1] * b[1] + a[2] * b[2] + a[3] * b[3], Scale)

Cross(a, b) == <<FMul(a[2], b[3]) - FMul(a[3], b[2]),
                 FMul(a[3], b[1]) - FMul(a[1], b[3]),
                 FMul(a[1], b[2]) - FMul(a[2], b[1])>>

SqNorm(a) == Dot(a, a)

Norm(a) == ISqrt(a[1] * a[1] + a[2] * a[2] + a[3] * a[3])

\* normalize() of a vector that is not zero.
Normalize(a) == LET l == Norm(a) IN <<FDiv(a[1], l), FDiv(a[2], l), FDiv(a[3], l)>>

\* Option<T>
None == [some |-> FALSE]

Some(v) == [some |-> TRUE, val |-> v]

\* ------------------------------------------------------------------------
\* geometry::Frame (the shading frame of spec section 4.1)

\* Frame::from_z: an orthonormal basis whose z axis is the normalized argument.
FrameFromZ(n) ==
  LET tz == Normalize(n)
      tx == IF Abs(tz[1]) > (99 * Scale) \div 100 THEN Vec(0, Scale, 0) ELSE Vec(Scale, 0, 0)
      ty == Normalize(Cross(tz, tx))
  IN [x |-> Cross(ty, tz), y |-> ty, z |-> tz]

ToLocal(f, v) == <<Dot(v, f.x), Dot(v, f.y), Dot(v, f.z)>>

ToWorld(f, v) == VAdd(VAdd(VScale(f.x, v[1]), VScale(f.y, v[2])), VScale(f.z, v[3]))

\* reflect_local: the mirror direction about the local z axis.
ReflectLocal(v) == <<-v[1], -v[2], v[3]>>

\* ------------------------------------------------------------------------
\* math and utility

\* EPS_COSINE is a positive constant below the fixed-point resolution 1/Scale:
\* c < EPS_COSINE and c <= EPS_COSINE both say c <= 0 of a fixed-point c.
LtEpsCosine(c) == c <= 0

LeEpsCosine(c) == c <= 0

FRAC_1_PI == 31

\* utility::luminance, the perceptual weighting of an RGB triple.
luminance(c) == TDiv(21 * c[1] + 72 * c[2] + 7 * c[3], 100)

\* cos(2 pi r) and sin(2 pi r) for r a whole number of quarter turns.
CosTwoPi(r) == CASE r = 0 -> Scale [] r = 25 -> 0 [] r = 50 -> -Scale [] r = 75 -> 0

SinTwoPi(r) == CASE r = 0 -> 0 [] r = 25 -> Scale [] r = 50 -> 0 [] r = 75 -> -Scale

\* utility::cos_hemisphere_sample_w: a direction around the local z axis with
\* density cos(theta)/pi, and that density.
cos_hemisphere_sample_w(rnd) ==
  LET term2 == FSqrt(Scale - rnd[2])
      z == FSqrt(rnd[2])
  IN <<Vec(FMul(CosTwoPi(rnd[1]), term2), FMul(SinTwoPi(rnd[1]), term2), z),
       FMul(z, FRAC_1_PI)>>

\* utility::pow_cos_hemisphere_sample_w: a direction around the local z axis
\* with density (n+1) cos(theta)^n / (2 pi), and that density.
pow_cos_hemisphere_sample_w(n, rnd) ==
  LET z == FRoot(rnd[2], n + 1)
      term2 == FSqrt(Scale - FMul(z, z))
  IN <<Vec(FMul(CosTwoPi(rnd[1]), term2), FMul(SinTwoPi(rnd[1]), term2), z),
       TDiv((n + 1) * FMul(FPow(z, n), FRAC_1_PI), 2)>>

\* ------------------------------------------------------------------------
\* brdf.rs

\* 1 / 1.0e-9, the reciprocal of the threshold of Probabilities::new.
ALBEDO_EPS_INV == 1000000000

Material(d, s, n) == [diffuse |-> d, specular |-> s, phong_exp |-> n]

\* Material::new_identity
new_identity == Material(Zero3, Zero3, 0)

albedo_diffuse(mat) == luminance(mat.diffuse)

albedo_specular(mat) == luminance(mat.specular)

total_albedo(mat) == albedo_specular(mat) + albedo_diffuse(mat)

\* total_albedo < 1.0e-9 of a fixed-point total_albedo: the threshold rounds
\* up to the next representable number.
BelowAlbedoEps(t) == t < (Scale + ALBEDO_EPS_INV - 1) \div ALBEDO_EPS_INV

\* Probabilities::new
Probabilities(mat) ==
  IF BelowAlbedoEps(total_albedo(mat))
  THEN [diffuse |-> 0, phong |-> 0, continuation |-> 0]
  ELSE [diffuse |-> FDiv(albedo_diffuse(mat), total_albedo(mat)),
        phong |-> FDiv(albedo_specular(mat), total_albedo(mat)),
        continuation |-> total_albedo(mat)]

\* Brdf::new
Brdf_new(out_dir_world, hit_normal, material) ==
  LET own_basis == FrameFromZ(hit_normal)
      wo_local == ToLocal(own_basis, VNeg(out_dir_world))
  IN IF LtEpsCosine(wo_local[3])
     THEN None
     ELSE Some([material |-> material, own_basis |-> own_basis,
                wo_local |-> wo_local, probs |-> Probabilities(material)])

\* Brdf::lambert_sample
lambert_sample(b, rnd) ==
  LET s == cos_hemisphere_sample_w(rnd)
      wi_local == s[1]
      cos_theta_in == wi_local[3]
  IN IF LtEpsCosine(cos_theta_in)
     THEN None
     ELSE Some([wi |-> ToWorld(b.own_basis, wi_local), cos_theta_in |-> cos_theta_in,
                radiance |-> b.material.diffuse, pdf |-> s[2]])

\* Brdf::phong_sample
phong_sample(b, rnd) ==
  LET s == pow_cos_hemisphere_sample_w(b.material.phong_exp, rnd)
      reflect_dir == ReflectLocal(b.wo_local)
      reflect_basis == FrameFromZ(reflect_dir)
      wi_local == ToWorld(reflect_basis, s[1])
      wi == ToWorld(b.own_basis, wi_local)
  IN IF LtEpsCosine(wi_local[3])
     THEN None
     ELSE Some([wi |-> wi, cos_theta_in |-> wi_local[3],
                radiance |-> b.material.specular, pdf |-> s[2]])

\* Brdf::sample
sample(b, rnd) ==
  LET sample_rnds == <<rnd[2], rnd[3]>>
  IN IF rnd[1] <= b.probs.diffuse
     THEN lambert_sample(b, sample_rnds)
     ELSE phong_sample(b, sample_rnds)

\* Brdf::lambert_eval
lambert_eval(b, wi_local) ==
  LET cos_theta == Max(wi_local[3], 0)
  IN [radiance |-> VScale(VScale(b.material.diffuse, cos_theta), FRAC_1_PI),
      pdf |-> FMul(cos_theta, FRAC_1_PI)]

\* Brdf::phong_eval
phong_eval(b, wi_local) ==
  LET refl_local == ReflectLocal(b.wo_local)
      cos_theta == Min(Max(Dot(refl_local, wi_local), 0), Scale)
      n == b.material.phong_exp
      refl_brightness == TDiv(FMul(FPow(cos_theta, n) * (n + 1), FRAC_1_PI), 2)
  IN [radiance |-> VScale(b.material.specular, refl_brightness),
      pdf |-> refl_brightness]

\* Brdf::eval
eval(b, wi) ==
  LET wi_local == Normalize(ToLocal(b.own_basis, wi))
  IN IF LtEpsCosine(wi_local[3])
     THEN None
     ELSE LET lambert == lambert_eval(b, wi_local)
              phong == phong_eval(b, wi_local)
          IN Some([radiance |-> VAdd(VScale(lambert.radiance, b.probs.diffuse),
                                     VScale(phong.radiance, b.probs.phong)),
                   pdf |-> FMul(lambert.pdf, b.probs.diffuse)
                           + FMul(phong.pdf, b.probs.phong)])

\* ------------------------------------------------------------------------
\* light.rs

\* An f32 that may not be a number: a finite value, f32::NEG_INFINITY or NaN.
Num(v) == [k |-> "num", v |-> v]

NEG_INFINITY == [k |-> "neg_inf"]

NaN == [k |-> "nan"]

\* 1 / (4 pi), the density of a uniform direction on the sphere.
uniform_sphere_pdf_w == TDiv(FRAC_1_PI, 4)

\* brdf::uniform_sphere_sample_w: a uniform direction on the sphere and its density.
uniform_sphere_sample_w(rands) ==
  LET term2 == 2 * FSqrt(rands[2] - FMul(rands[2], rands[2]))
  IN <<Vec(FMul(CosTwoPi(rands[1]), term2), FMul(SinTwoPi(rands[1]), term2),
           Scale - 2 * rands[2]),
       uniform_sphere_pdf_w>>

\* brdf::uniform_triangle_sample: barycentric coordinates of a uniform point.
uniform_triangle_sample(rands) ==
  LET term == FSqrt(rands[1])
  IN <<Scale - term, FMul(rands[2], term)>>

\* AreaLight::new
AreaLight_new(p0, p1, p2, intensity) ==
  LET e1 == VSub(p1, p0)
      e2 == VSub(p2, p0)
      normal == Cross(e1, e2)
  IN [p0 |-> p0, e1 |-> e1, e2 |-> e2, frame |-> FrameFromZ(normal),
      inv_area |-> FDiv(2 * Scale, Norm(normal)), intensity |-> intensity]

\* <AreaLight as Light>::illuminate.  normalize() of the zero vector divides
\* zero by zero: every component is NaN, so is the cosine, and a comparison
\* with NaN is false.
AreaLight_illuminate(self, receiving_pnt, rands) ==
  LET uv == uniform_triangle_sample(rands)
      light_pnt == VAdd(VAdd(self.p0, VScale(self.e1, uv[1])), VScale(self.e2, uv[2]))
      to_light == VSub(light_pnt, receiving_pnt)
      dist_sqr == SqNorm(to_light)
  IN IF Norm(to_light) = 0
     THEN [dir_to_light |-> NaN, dist_to_light |-> Num(FSqrt(dist_sqr)),
           dir_pdf_w |-> NaN, intensity |-> self.intensity]
     ELSE LET dir_to_light == Normalize(to_light)
              cos_normal_dir == Dot(self.frame.z, VNeg(dir_to_light))
          IN IF LeEpsCosine(cos_normal_dir)
             THEN [dir_to_light |-> Num(dir_to_light),
                   dist_to_light |-> Num(FSqrt(dist_sqr)),
                   dir_pdf_w |-> NEG_INFINITY, intensity |-> Zero3]
             ELSE [dir_to_light |-> Num(dir_to_light),
                   dist_to_light |-> Num(FSqrt(dist_sqr)),
                   dir_pdf_w |-> Num(FDiv(FMul(self.inv_area, dist_sqr), cos_normal_dir)),
                   intensity |-> self.intensity]

\* <AreaLight as Light>::get_radiance
AreaLight_get_radiance(self, dir, hit) ==
  LET cos_out_l == Max(Dot(self.frame.z, VNeg(dir)), 0)
  IN IF cos_out_l = 0
     THEN [intensity |-> Zero3, dir_pdf_a |-> NEG_INFINITY]
     ELSE [intensity |-> self.intensity, dir_pdf_a |-> Num(self.inv_area)]

\* BackgroundLight { intensity, scale }
BackgroundLight(intensity, scale) == [intensity |-> intensity, scale |-> scale]

\* <BackgroundLight as Light>::illuminate
BackgroundLight_illuminate(self, receiving_pnt, rands) ==
  LET s == uniform_sphere_sample_w(rands)
  IN [dir_to_light |-> Num(s[1]), dir_pdf_w |-> Num(s[2]),
      dist_to_light |-> Num(1000000000),
      intensity |-> VScale(self.intensity, self.scale)]

\* <BackgroundLight as Light>::get_radiance
BackgroundLight_get_radiance(self, dir, hit) ==
  [intensity |-> VScale(self.intensity, self.scale),
   dir_pdf_a |-> Num(uniform_sphere_pdf_w)]

\* ------------------------------------------------------------------------
\* The scene, the camera and the random source of the path integrator

\* Bounds of the model.
ResX == 2

NLights == 2

\* math::EPS_RAY is a positive constant below the fixed-point resolution.
EPS_RAY == 0

MAX_PATH_LENGTH == 100

\* The directions rays and normals take: the two directions of the z axis.
Dirs == {Vec(0, 0, Scale), Vec(0, 0, -Scale)}

\* The iteration numbers iterate is called with: the first call and later ones.
IterNbs == {0, 1}

\* Uniform random numbers in [0, 1).
Rands == {0, 50, 99}

\* Pairs of them.
RandPairs == {<<0, 50>>, <<99, 0>>}

\* PerspectiveCamera::get_view_size
get_view_size == <<ResX, 1>>

\* Scene::get_material: material 0 is a grey diffuse surface, material 1 is
\* fully absorptive.
SceneMaterials == <<Material(Vec(60, 60, 60), Zero3, 1), new_identity>>

MaterialIds == 0..(Len(SceneMaterials) - 1)

get_material(mat_id) == SceneMaterials[mat_id + 1]

get_lights_nb == NLights

LightIds == 0..(NLights - 1)

\* The corner of the scene's bounding box opposite to the origin: the scene
\* is a segment of the z axis.
SceneMax == Vec(0, 0, Scale)

\* Scene::get_light: every light is a dim triangle in the plane at the top of
\* the scene that faces down.
get_light(light_id) ==
  AreaLight_new(Vec(0, 0, SceneMax[3]), Vec(0, 2 * Scale, SceneMax[3]),
                Vec(2 * Scale, 0, SceneMax[3]), Vec(10, 10, 10))

\* Scene::get_background_light
get_background_light == BackgroundLight(One3, Scale)

Material_surface(id) == [kind |-> "Material", id |-> id]

Light_surface(id) == [kind |-> "Light", id |-> id]

Surfaces == {Material_surface(m) : m \in MaterialIds} \cup {Light_surface(l) : l \in LightIds}

InScene(p) == \A c \in 1..3 : 0 <= p[c] /\ p[c] <= SceneMax[c]

\* The results Scene::nearest_intersection can give for a ray: no hit, or a
\* hit of any surface of the scene at a distance that stays inside the scene.
Intersections(r) ==
  {None} \cup
  {Some([dist |-> d, normal |-> n, surface |-> sf]) :
     d \in {dd \in {Scale, 2 * Scale} : InScene(VAdd(r.orig, VScale(r.dir, dd)))},
     n \in Dirs, sf \in Surfaces}

\* The rays PerspectiveCamera::ray_from_screen can give for a screen sample.
ray_from_screen(smp) == {[orig |-> Zero3, dir |-> d] : d \in Dirs}

\* Light::radiate of a scene light or of the background light: the radiance
\* get_radiance gives along the ray, absent when the light does not emit
\* toward the ray's origin.
radiate(light, r) ==
  LET got == IF "p0" \in DOMAIN light
             THEN AreaLight_get_radiance(light, r.dir, Zero3)
             ELSE BackgroundLight_get_radiance(light, r.dir, Zero3)
  IN IF got.dir_pdf_a = NEG_INFINITY THEN None ELSE Some([radiance |-> got.intensity])

\* The results Light::illuminate can give a scene light for a receiving
\* point and a pair of random numbers: absent, or a direction to a point of
\* the light, its distance and the light's radiance.
Illuminations(light, pnt, rands) ==
  {None} \cup
  {Some([dir_to_light |-> d, dist_to_light |-> dl, radiance |-> light.intensity]) :
     d \in Dirs, dl \in {Scale, 2 * Scale}}

\* The results Brdf::sample can give the integrator: absent, or a direction
\* above the surface with the albedo of the sampled lobe as its weight.
Samples(b, rands) ==
  {None} \cup
  {Some([radiance_factor |-> f, in_dir_world |-> d]) :
     f \in {b.material.diffuse, b.material.specular},
     d \in {dd \in Dirs : ~LtEpsCosine(Dot(dd, b.own_basis.z))}}

\* ------------------------------------------------------------------------
\* pathtracer.rs: CpuPathTracer::iterate

VARIABLES
  pc,            \* where the integrator is
  iter_nb,       \* the argument of the current (or latest) call of iterate
  pix_nb,        \* the pixel loop's counter
  calls,         \* the coordinates add_color was called with, in this call of iterate
  ray,           \* the current ray of the path
  path_length,
  path_weight,   \* throughput
  color,         \* the pixel's accumulated colour
  hit_pos,
  brdf,          \* the reflectance model of the current hit
  i,             \* the light loop's counter
  illum,         \* the illumination sample of light i
  brdf_eval,     \* the reflectance model evaluated toward light i
  shadow,        \* the nearest intersection along the shadow ray
  was_occluded,
  rad,           \* the radiance a terminating miss or light hit asked for
  ended,         \* how the path loop was left
  self,          \* the receiver of a direct call of the reflectance model or a light
  call,          \* that call
  ret            \* and its result

ptvars == <<pc, iter_nb, pix_nb, calls, ray, path_length, path_weight, color, hit_pos,
            brdf, i, illum, brdf_eval, shadow, was_occluded, rad, ended>>

fnvars == <<self, call, ret>>

vars == <<pc, iter_nb, pix_nb, calls, ray, path_length, path_weight, color, hit_pos,
          brdf, i, illum, brdf_eval, shadow, was_occluded, rad, ended, self, call, ret>>

NoRay == [orig |-> Zero3, dir |-> Zero3]

NoCall == [fn |-> "none"]

res_x == get_view_size[1]

res_y == get_view_size[2]

\* The locals of a pixel's path before the path starts and after it is over.
PathLocalsCleared ==
  /\ ray' = NoRay
  /\ path_length' = 0
  /\ path_weight' = One3
  /\ color' = Zero3
  /\ rad' = None
  /\ ended' = "none"

\* The locals of one loop step outside that step.
StepLocalsCleared ==
  /\ hit_pos' = Zero3
  /\ brdf' = None
  /\ i' = 0
  /\ illum' = None
  /\ brdf_eval' = None
  /\ shadow' = None
  /\ was_occluded' = FALSE

InitPathTracer ==
  /\ pc = "idle"
  /\ iter_nb = 0
  /\ pix_nb = 0
  /\ calls = <<>>
  /\ ray = NoRay
  /\ path_length = 0
  /\ path_weight = One3
  /\ color = Zero3
  /\ rad = None
  /\ ended = "none"
  /\ hit_pos = Zero3
  /\ brdf = None
  /\ i = 0
  /\ illum = None
  /\ brdf_eval = None
  /\ shadow = None
  /\ was_occluded = FALSE

Init ==
  /\ InitPathTracer
  /\ self = None
  /\ call = NoCall
  /\ ret = None

\* break 'current_path
Break(how, r) ==
  /\ pc' = "add"
  /\ ended' = how
  /\ rad' = r
  /\ StepLocalsCleared

\* iterate(iter_nb) is called.
Iterate ==
  /\ pc = "idle"
  /\ iter_nb' \in IterNbs
  /\ pc' = "pixel"
  /\ pix_nb' = 0
  /\ calls' = <<>>
  /\ UNCHANGED <<ray, path_length, path_weight, color, hit_pos, brdf, i, illum,
                 brdf_eval, shadow, was_occluded, rad, ended, self, call, ret>>

\* The pixel loop is over: iterate returns.
Return ==
  /\ pc = "pixel"
  /\ pix_nb >= res_x * res_y
  /\ pc' = "idle"
  /\ UNCHANGED <<iter_nb, pix_nb, calls, ray, path_length, path_weight, color, hit_pos, brdf, i,
                 illum, brdf_eval, shadow, was_occluded, rad, ended, self, call, ret>>

\* PixelCoord with the two coordinates swapped.
PixelCoord_Swapped(n) == <<n \div res_x, n % res_x>>

\* let (x, y) = (pix_nb % res_x, pix_nb / res_x)
PixelCoord(n) == <<n % res_x, n \div res_x>>

\* The head of the pixel loop: the screen sample, the primary ray and the
\* path's initial state.
BeginPixel ==
  /\ pc = "pixel"
  /\ pix_nb < res_x * res_y
  /\ \E j \in (IF iter_nb = 0 THEN {<<50, 50>>} ELSE RandPairs) :
       LET xy == PixelCoord(pix_nb)
           smp == <<xy[1] * Scale + j[1], xy[2] * Scale + j[2]>>
       IN \E r \in ray_from_screen(smp) : ray' = r
  /\ path_length' = 0
  /\ path_weight' = One3
  /\ color' = Zero3
  /\ pc' = "intersect"
  /\ UNCHANGED <<iter_nb, pix_nb, calls, hit_pos, brdf, i, illum, brdf_eval, shadow,
                 was_occluded, rad, ended, self, call, ret>>

\* MissColor without the background's radiance.
MissColor_Dropped(c, weight, back_rad) == c

\* color = color + path_weight * back_rad.radiance, if the radiance is there.
MissColor(c, weight, back_rad) ==
  IF back_rad.some THEN VAdd(c, VMul(weight, back_rad.val.radiance)) ELSE c

\* The ray hits nothing: the background light's radiance and the end of the path.
Miss ==
  /\ pc = "intersect"
  /\ None \in Intersections(ray)
  /\ LET back_rad == radiate(get_background_light, ray)
     IN /\ color' = MissColor(color, path_weight, back_rad)
        /\ Break("miss", back_rad)
  /\ UNCHANGED <<iter_nb, pix_nb, calls, ray, path_length, path_weight, self, call, ret>>

\* The ray hits a material surface: the reflectance model, or the end of the path.
HitMaterial ==
  /\ pc = "intersect"
  /\ \E some_isect \in Intersections(ray) :
       /\ some_isect.some
       /\ some_isect.val.surface.kind = "Material"
       /\ LET isect == some_isect.val
              b == Brdf_new(ray.dir, isect.normal, get_material(isect.surface.id))
          IN IF b.some
             THEN /\ hit_pos' = VAdd(ray.orig, VScale(ray.dir, isect.dist))
                  /\ brdf' = b
                  /\ i' = 0
                  /\ pc' = "lights"
                  /\ UNCHANGED <<illum, brdf_eval, shadow, was_occluded, rad, ended>>
             ELSE Break("no_brdf", None)
  /\ UNCHANGED <<iter_nb, pix_nb, calls, ray, path_length, path_weight, color, self, call,
                 ret>>

\* LightHitRadiance without the test of the path length.
LightHitRadiance_AnyBounce(len, light, r) == radiate(light, r)

\* The Light arm of the match on the hit surface: the light's radiance, asked
\* for at path length 0 only.
LightHitRadiance(len, light, r) == IF len = 0 THEN radiate(light, r) ELSE None

\* LightHitColor with the radiance added to the colour so far and to itself.
LightHitColor_Added(c, r) == IF r.some THEN VAdd(VAdd(c, r.val.radiance), r.val.radiance) ELSE c

\* color = rad.radiance, if the radiance is there.
LightHitColor(c, r) == IF r.some THEN r.val.radiance ELSE c

\* The ray hits a light: its radiance if this is the primary ray, and the end
\* of the path.
HitLight ==
  /\ pc = "intersect"
  /\ \E some_isect \in Intersections(ray) :
       /\ some_isect.some
       /\ some_isect.val.surface.kind = "Light"
       /\ LET light_id == some_isect.val.surface.id
              r == LightHitRadiance(path_length, get_light(light_id), ray)
          IN /\ color' = LightHitColor(color, r)
             /\ Break("light", r)
  /\ UNCHANGED <<iter_nb, pix_nb, calls, ray, path_length, path_weight, self, call, ret>>

\* The head of the light loop for light i: the illumination sample and the
\* reflectance model toward it.
LightSample ==
  /\ pc = "lights"
  /\ i < get_lights_nb
  /\ \E rands \in RandPairs :
       \E il \in Illuminations(get_light(i), hit_pos, rands) :
         LET ev == IF il.some THEN eval(brdf.val, il.val.dir_to_light) ELSE None
         IN IF il.some /\ ev.some
            THEN /\ illum' = il
                 /\ brdf_eval' = ev
                 /\ pc' = "shadow"
                 /\ i' = i
            ELSE /\ i' = i + 1
                 /\ UNCHANGED <<illum, brdf_eval, pc>>
  /\ UNCHANGED <<iter_nb, pix_nb, calls, ray, path_length, path_weight, color, hit_pos,
                 brdf, shadow, was_occluded, rad, ended, self, call, ret>>

\* The block that sets was_occluded from the shadow ray's nearest intersection.
WasOccluded(some_isect, il, light) ==
  IF some_isect.some
  THEN IF some_isect.val.dist < il.dist_to_light
       THEN IF some_isect.val.surface.kind = "Light"
            THEN some_isect.val.surface.id # light
            ELSE FALSE
       ELSE FALSE
  ELSE FALSE

\* The shadow ray toward the sampled point of light i.
ShadowRay ==
  /\ pc = "shadow"
  /\ LET ray_to_light == [orig |-> hit_pos, dir |-> illum.val.dir_to_light]
     IN \E some_isect \in Intersections(ray_to_light) :
          /\ shadow' = some_isect
          /\ was_occluded' = WasOccluded(some_isect, illum.val, i)
  /\ pc' = "accum"
  /\ UNCHANGED <<iter_nb, pix_nb, calls, ray, path_length, path_weight, color, hit_pos,
                 brdf, i, illum, brdf_eval, rad, ended, self, call, ret>>

\* The direct contribution of light i.
NeeTerm == VMul(VMul(illum.val.radiance, path_weight), brdf_eval.val.radiance)

\* AccumulatedColor without the test of was_occluded.
AccumulatedColor_Always(c, occluded, term) == VAdd(c, term)

\* if !was_occluded { color = color + term }
AccumulatedColor(c, occluded, term) == IF ~occluded THEN VAdd(c, term) ELSE c

\* The end of the light loop's body for light i.
Accumulate ==
  /\ pc = "accum"
  /\ color' = AccumulatedColor(color, was_occluded, NeeTerm)
  /\ i' = i + 1
  /\ illum' = None
  /\ brdf_eval' = None
  /\ shadow' = None
  /\ was_occluded' = FALSE
  /\ pc' = "lights"
  /\ UNCHANGED <<iter_nb, pix_nb, calls, ray, path_length, path_weight, hit_pos, brdf,
                 rad, ended, self, call, ret>>

\* path_weight = path_weight * sample.radiance_factor
ContinuedWeight(weight, radiance_factor) == VMul(weight, radiance_factor)

\* The continuation sample after the light loop.
Continuation ==
  /\ pc = "lights"
  /\ i >= get_lights_nb
  /\ \E rands \in RandPairs :
       \E smp \in Samples(brdf.val, rands) :
         IF smp.some
         THEN /\ path_weight' = ContinuedWeight(path_weight, smp.val.radiance_factor)
              /\ ray' = [dir |-> smp.val.in_dir_world,
                         orig |-> VAdd(hit_pos, VScale(smp.val.in_dir_world, EPS_RAY))]
              /\ pc' = "cap"
              /\ StepLocalsCleared
              /\ UNCHANGED <<rad, ended>>
         ELSE /\ Break("no_sample", None)
              /\ UNCHANGED <<path_weight, ray>>
  /\ UNCHANGED <<iter_nb, pix_nb, calls, path_length, color, self, call, ret>>

\* PathTooLong with the cap off by one.
PathTooLong_OffByOne(len) == len > MAX_PATH_LENGTH + 1

\* if path_length > MAX_PATH_LENGTH
PathTooLong(len) == len > MAX_PATH_LENGTH

CapCheck ==
  /\ pc = "cap"
  /\ IF PathTooLong(path_length)
     THEN Break("cap", None)
     ELSE /\ pc' = "roulette"
          /\ UNCHANGED <<hit_pos, brdf, i, illum, brdf_eval, shadow, was_occluded, rad,
                         ended>>
  /\ UNCHANGED <<iter_nb, pix_nb, calls, ray, path_length, path_weight, color, self, call,
                 ret>>

\* RouletteKills with the throughput's first channel in place of its norm.
RouletteKills_ByChannel(weight, rnd) == weight[1] < rnd

\* if path_weight.norm() < rng.next_f32()
RouletteKills(weight, rnd) == Norm(weight) < rnd

\* Russian roulette, and the end of the loop body.
RussianRoulette ==
  /\ pc = "roulette"
  /\ \E rnd \in Rands :
       IF RouletteKills(path_weight, rnd)
       THEN /\ Break("roulette", None)
            /\ UNCHANGED path_length
       ELSE /\ path_length' = path_length + 1
            /\ pc' = "intersect"
            /\ UNCHANGED <<hit_pos, brdf, i, illum, brdf_eval, shadow, was_occluded, rad,
                           ended>>
  /\ UNCHANGED <<iter_nb, pix_nb, calls, ray, path_weight, color, self, call, ret>>

\* After the path loop: frame.add_color((x, y), color), and the next pixel.
AddColor ==
  /\ pc = "add"
  /\ calls' = Append(calls, PixelCoord(pix_nb))
  /\ pix_nb' = pix_nb + 1
  /\ pc' = "pixel"
  /\ PathLocalsCleared
  /\ UNCHANGED <<iter_nb, hit_pos, brdf, i, illum, brdf_eval, shadow, was_occluded, self,
                 call, ret>>

Next ==
  \/ Iterate
  \/ Return
  \/ BeginPixel
  \/ Miss
  \/ HitMaterial
  \/ HitLight
  \/ LightSample
  \/ ShadowRay
  \/ Accumulate
  \/ Continuation
  \/ CapCheck
  \/ RussianRoulette
  \/ AddColor

Spec == Init /\ [][Next]_vars

\* ------------------------------------------------------------------------
\* Direct calls of the reflectance model (brdf.rs)

\* Whole numbers of quarter turns and squares of halves: the random numbers
\* the direction generators are exact on.
SampleRands == {0, 25, 50, 75}

\* The materials the reflectance model is built from: two fully absorptive
\* ones, a diffuse one, a glossy one and a mixed one.
BrdfMaterials ==
  {new_identity,
   Material(Zero3, Zero3, 2),
   Material(Vec(60, 60, 60), Zero3, 1),
   Material(Zero3, Vec(50, 50, 50), 2),
   Material(Vec(60, 30, 10), Vec(30, 30, 30), 1)}

\* Ray directions: straight down, down at 45 degrees, and up.
BrdfRayDirs == {Vec(0, 0, -Scale), Vec(-70, 0, -70), Vec(0, 0, Scale)}

BrdfNormals == {Vec(0, 0, Scale), Vec(Scale, 0, 0)}

\* Directions eval is asked about.
BrdfEvalDirs == {Vec(0, 0, Scale), Vec(70, 0, 70), Vec(Scale, 0, 0), Vec(0, 0, -Scale)}

IsBrdf(s) == "wo_local" \in DOMAIN s

CallBrdfNew ==
  /\ \E d \in BrdfRayDirs, n \in BrdfNormals, m \in BrdfMaterials :
       LET b == Brdf_new(d, n, m)
       IN /\ call' = [fn |-> "Brdf::new", out_dir_world |-> d, hit_normal |-> n,
                      material |-> m]
          /\ ret' = b
          /\ self' = IF b.some THEN b.val ELSE None
  /\ UNCHANGED ptvars

CallBrdfSample ==
  /\ IsBrdf(self)
  /\ \E rnd \in SampleRands \X SampleRands \X SampleRands :
       /\ call' = [fn |-> "sample", rnd |-> rnd]
       /\ ret' = sample(self, rnd)
  /\ UNCHANGED <<self, ptvars>>

CallBrdfEval ==
  /\ IsBrdf(self)
  /\ \E wi \in BrdfEvalDirs :
       /\ call' = [fn |-> "eval", wi |-> wi]
       /\ ret' = eval(self, wi)
  /\ UNCHANGED <<self, ptvars>>

NextBrdf ==
  \/ CallBrdfNew
  \/ CallBrdfSample
  \/ CallBrdfEval

SpecBrdf == Init /\ [][NextBrdf]_vars

\* ------------------------------------------------------------------------
\* Direct calls of the lights (light.rs)

\* Triangles in the plane z = 2, facing up and facing down.
LightTriangles ==
  {<<Vec(0, 0, 2 * Scale), Vec(2 * Scale, 0, 2 * Scale), Vec(0, 2 * Scale, 2 * Scale)>>,
   <<Vec(0, 0, 2 * Scale), Vec(0, 2 * Scale, 2 * Scale), Vec(2 * Scale, 0, 2 * Scale)>>}

LightIntensities == {Zero3, One3, Vec(2 * Scale, Scale, 0)}

\* Receiving points: below, above and beside the triangles, and on them.
ReceivingPoints ==
  {Vec(0, 0, 0), Vec(Scale, 0, 0), Vec(0, 0, 4 * Scale), Vec(Scale, Scale, 3 * Scale),
   Vec(4 * Scale, 0, 2 * Scale), Vec(Scale, 0, 2 * Scale), Vec(2 * Scale, 0, 2 * Scale)}

LightRands == {0, 25}

LightRayDirs == {Vec(0, 0, Scale), Vec(0, 0, -Scale), Vec(Scale, 0, 0), Vec(70, 0, -70)}

IsAreaLight(s) == "inv_area" \in DOMAIN s

IsBackgroundLight(s) == "scale" \in DOMAIN s

CallAreaLightNew ==
  /\ \E t \in LightTriangles, intensity \in LightIntensities :
       /\ call' = [fn |-> "AreaLight::new", p0 |-> t[1], p1 |-> t[2], p2 |-> t[3],
                   intensity |-> intensity]
       /\ self' = AreaLight_new(t[1], t[2], t[3], intensity)
  /\ ret' = None
  /\ UNCHANGED ptvars

CallBackgroundLightNew ==
  /\ \E intensity \in LightIntensities, scale \in {0, 50, Scale} :
       /\ call' = [fn |-> "BackgroundLight", intensity |-> intensity, scale |-> scale]
       /\ self' = BackgroundLight(intensity, scale)
  /\ ret' = None
  /\ UNCHANGED ptvars

CallIlluminate ==
  /\ IsAreaLight(self) \/ IsBackgroundLight(self)
  /\ \E pnt \in ReceivingPoints, rands \in LightRands \X LightRands :
       /\ call' = [fn |-> "illuminate", receiving_pnt |-> pnt, rands |-> rands]
       /\ ret' = IF IsAreaLight(self)
                 THEN AreaLight_illuminate(self, pnt, rands)
                 ELSE BackgroundLight_illuminate(self, pnt, rands)
  /\ UNCHANGED <<self, ptvars>>

CallGetRadiance ==
  /\ IsAreaLight(self) \/ IsBackgroundLight(self)
  /\ \E dir \in LightRayDirs, hit \in ReceivingPoints :
       /\ call' = [fn |-> "get_radiance", dir |-> dir, hit |-> hit]
       /\ ret' = IF IsAreaLight(self)
                 THEN AreaLight_get_radiance(self, dir, hit)
                 ELSE BackgroundLight_get_radiance(self, dir, hit)
  /\ UNCHANGED <<self, ptvars>>

NextLight ==
  \/ CallAreaLightNew
  \/ CallBackgroundLightNew
  \/ CallIlluminate
  \/ CallGetRadiance

SpecLight == Init /\ [][NextLight]_vars

\* ------------------------------------------------------------------------
\* The claims

\* The positions of the integrator inside a pixel's path loop.
InPath == pc \in {"intersect", "lights", "shadow", "accum", "cap", "roulette"}

\* C1: for every material whose total albedo is below 1e-9, Brdf::sample
\* returns None for every triple of random numbers.
C1_AbsorptiveNeverSampled ==
  (call.fn = "sample" /\ BelowAlbedoEps(total_albedo(self.material))) => ~ret.some

\* C2: the shadow ray of light i is treated as occluded exactly when its
\* nearest intersection exists, is strictly closer than the sampled distance
\* to the light and is any surface other than light i itself.
C2_OccludedExactlyWhen ==
  pc = "accum" =>
    (was_occluded <=> (/\ shadow.some
                       /\ shadow.val.dist < illum.val.dist_to_light
                       /\ shadow.val.surface # Light_surface(i)))

\* C3: when the primary ray (path length 0) hits a light whose radiance along
\* the ray is defined, the path ends at once and the colour handed to
\* add_color is exactly that radiance.
C3_PrimaryLightHit ==
  /\ (pc = "add" /\ ended = "light" /\ path_length = 0 /\ rad.some)
       => color = rad.val.radiance
  /\ (pc = "add" /\ ended = "light" /\ path_length = 0 /\ ~rad.some)
       => color = Zero3

C3_Witness ==
  /\ pc = "add"
  /\ ended = "light"
  /\ path_length = 0
  /\ rad.some
  /\ color = Vec(10, 10, 10)

\* C4: when the primary ray misses all geometry the path ends in its first
\* loop step and the colour handed to add_color is (1,1,1) times the
\* background light's radiance: (1,1,1) under the background of radiance (1,1,1).
C4_PrimaryMiss ==
  (pc = "add" /\ ended = "miss" /\ path_length = 0)
    => /\ rad.some
       /\ color = VMul(One3, rad.val.radiance)
       /\ color = One3

C4_Witness ==
  /\ pc = "add"
  /\ ended = "miss"
  /\ path_length = 0
  /\ color = One3
  /\ pix_nb = res_x * res_y - 1

\* C5: every result of a light's illuminate or get_radiance with a non-zero
\* intensity has a strictly positive pdf, and a zero or negative-infinity pdf
\* comes with zero intensity.
C5_PdfMatchesIntensity ==
  (call.fn \in {"illuminate", "get_radiance"}) =>
    LET pdf == IF call.fn = "illuminate" THEN ret.dir_pdf_w ELSE ret.dir_pdf_a
    IN /\ ret.intensity # Zero3 => (pdf.k = "num" /\ pdf.v > 0)
       /\ (pdf = NEG_INFINITY \/ (pdf.k = "num" /\ pdf.v = 0)) => ret.intensity = Zero3

\* C6: at the Russian-roulette step a path whose throughput magnitude is at
\* least 1 is never terminated, and a path the step terminates has a
\* magnitude below the largest random number.
C6_RouletteSparesFullWeight ==
  [][/\ (pc = "roulette" /\ Norm(path_weight) >= Scale)
          => (pc' = "intersect" /\ path_length' = path_length + 1)
     /\ (pc = "roulette" /\ pc' = "add")
          => (ended' = "roulette" /\ \E rnd \in Rands : Norm(path_weight) < rnd)]_vars

C6_Witness ==
  /\ pc = "intersect"
  /\ path_length = 1
  /\ Norm(path_weight) >= Scale
  /\ path_weight # One3

\* C7, as stated: the path length counter stays bounded by the cap.
C7_BoundedByCap == path_length <= MAX_PATH_LENGTH

\* C7, amended: the cap check ends a path exactly when its length exceeds the
\* cap, so Russian roulette and the increment run only with a length within
\* the cap; a pass of the loop that does not end the path adds one to the
\* length; hence every path loop ends, and the length never exceeds the cap
\* plus one.
C7_BoundedByCapPlusOne ==
  /\ [](/\ path_length <= MAX_PATH_LENGTH + 1
        /\ (pc = "roulette" => path_length <= MAX_PATH_LENGTH)
        /\ (ended = "cap" => path_length = MAX_PATH_LENGTH + 1))
  /\ [][/\ (pc = "cap" /\ path_length > MAX_PATH_LENGTH) => (pc' = "add" /\ ended' = "cap")
        /\ (pc = "cap" /\ path_length <= MAX_PATH_LENGTH) => pc' = "roulette"
        /\ (pc = "roulette" /\ pc' = "intersect") => path_length' = path_length + 1
        /\ (InPath /\ pc' = "intersect") => pc = "roulette"]_vars

C7_Witness ==
  /\ pc = "add"
  /\ ended = "cap"
  /\ path_length = MAX_PATH_LENGTH + 1

\* C8: a light hit at path length greater than 0 ends the path at once and
\* leaves the accumulated colour unchanged.
C8_LaterLightHitAddsNothing ==
  [][(pc = "intersect" /\ path_length > 0 /\ ended' = "light")
       => (pc' = "add" /\ color' = color /\ rad' = None)]_vars

C8_Witness ==
  /\ pc = "add"
  /\ ended = "light"
  /\ path_length > 0
  /\ ray.dir = Vec(0, 0, Scale)
  /\ color # Zero3

\* C9: in one call of iterate add_color is called exactly once for each
\* pixel, in pixel order, after the pixel's path loop, however the path ended.
C9_CalledCoords == [k \in 1..pix_nb |-> <<(k - 1) % ResX, (k - 1) \div ResX>>]

C9_AddColorOncePerPixel ==
  /\ pix_nb <= ResX
  /\ pc # "idle" => calls = C9_CalledCoords
  /\ (pc = "idle" /\ calls # <<>>) => (pix_nb = ResX /\ calls = C9_CalledCoords)
  /\ pc = "add" => (ended # "none" /\ pix_nb < ResX)
  /\ InPath
       => (ended = "none" /\ Len(calls) = pix_nb /\ pix_nb < ResX)

C9_Witness ==
  /\ pc = "idle"
  /\ Len(calls) = ResX
  /\ calls[ResX] = <<ResX - 1, 0>>
  /\ iter_nb = 1

\* C10: within a path throughput starts at (1,1,1) and only the continuation
\* step changes it, to its product with the sampled weight; the light loop
\* leaves throughput, ray and path length alone; the colour starts at zero
\* and only a miss, a first-bounce light hit and an unoccluded light sample
\* change it.
C10_InLightLoop == pc \in {"shadow", "accum"} \/ (pc = "lights" /\ i < get_lights_nb)

C10_FrameConditions ==
  [][/\ (pc = "pixel" /\ pc' = "intersect") => (path_weight' = One3 /\ color' = Zero3)
     /\ (InPath /\ path_weight' # path_weight)
          => /\ pc = "lights"
             /\ i >= get_lights_nb
             /\ pc' = "cap"
             /\ \E f \in {brdf.val.material.diffuse, brdf.val.material.specular} :
                  path_weight' = VMul(path_weight, f)
     /\ C10_InLightLoop => UNCHANGED <<path_weight, ray, path_length>>
     /\ (InPath /\ color' # color)
          => \/ pc = "intersect" /\ ended' = "miss"
             \/ pc = "intersect" /\ ended' = "light" /\ path_length = 0
             \/ pc = "accum" /\ ~was_occluded]_vars

C10_Witness ==
  /\ pc = "lights"
  /\ i = get_lights_nb
  /\ path_length = 1
  /\ path_weight = Vec(60, 60, 60)
  /\ color = Vec(2, 2, 2)

====
